---------------------------- MODULE Spec2Model ----------------------------
(***************************************************************************)
(* Model of the LiDAR calibration simulator:                               *)
(*   - LidarCalibrator (include/lidar_calibration.h, lidar_calibration.cpp *)
(*     kept as unnamed/part_001): one calibration session per sensor;      *)
(*   - main (src/cpp/main.cpp): the driver that calibrates four sensors    *)
(*     and runs the consistency check.                                     *)
(*                                                                         *)
(* Number representation.  The code computes in float.  The model uses     *)
(* fixed point:                                                            *)
(*   - errors are integers in units of 1e-4 (0.01f = 100, 0.02f = 200,     *)
(*     (rand() % 100) / 10000.0f = rand() % 100);                          *)
(*   - coordinates are integers in units of 0.05 (0.1f = 2); a quotient    *)
(*     is rounded down to that grid.                                       *)
(***************************************************************************)
EXTENDS Integers, Sequences, FiniteSets, TLC

\* ------------------------------------------------------------ constants
NumLidars == 4
BaseError == 100
RandMod == 100
Tolerance == 200
FilterThreshold == 2

\* ------------------------------------------------------------ bounds
MaxCloudLen == 3
NumThreads == 2
DriverCloudLen == 1

\* The points the inputs are built from: one inside the filter radius and
\* two outside it; the three are not colinear.
Points == { <<1, 0, 0>>, <<3, 0, 0>>, <<0, 3, 0>> }

\* The sequences of at most n elements of S.
RECURSIVE SeqsUpTo(_, _)
SeqsUpTo(S, n) ==
    IF n = 0 THEN { <<>> }
    ELSE LET shorter == SeqsUpTo(S, n - 1)
         IN  shorter \cup
             { Append(s, x) : s \in { t \in shorter : Len(t) = n - 1 },
                              x \in S }

Range(s) == { s[k] : k \in DOMAIN s }

\* The input clouds: at most MaxCloudLen points, no point twice (with the
\* three points above, every such cloud has at most three points).
Clouds == { c \in SeqsUpTo(Points, MaxCloudLen) : Cardinality(Range(c)) = Len(c) }

\* Values rand() returns in the runs explored: both ends of its range
\* [0, RAND_MAX] (residues 0 and 47) and the largest residue, 99.
RandValues == { 0, 99, 2147483647 }

\* The sessions of the API harness (two are enough to tell a session from
\* another one); the driver owns NumLidars sessions.
HarnessIds == { 0, 1 }
LidarIds == 0 .. (NumLidars - 1)

\* ------------------------------------------------------------ geometry
Identity ==
    << 1, 0, 0, 0,
       0, 1, 0, 0,
       0, 0, 1, 0,
       0, 0, 0, 1 >>

\* m[k] of the code (0-based)
At(m, k) == m[k + 1]

\* m[k] = v of the code (0-based)
Put(m, k, v) == [m EXCEPT ![k + 1] = v]

RECURSIVE SumCoord(_, _)
SumCoord(cloud, c) ==
    IF cloud = <<>> THEN 0
    ELSE Head(cloud)[c] + SumCoord(Tail(cloud), c)

Centroid(cloud) ==
    << SumCoord(cloud, 1) \div Len(cloud),
       SumCoord(cloud, 2) \div Len(cloud),
       SumCoord(cloud, 3) \div Len(cloud) >>

TransformPoint(p, m) ==
    << p[1] * At(m, 0) + p[2] * At(m, 1) + p[3] * At(m, 2) + At(m, 3),
       p[1] * At(m, 4) + p[2] * At(m, 5) + p[3] * At(m, 6) + At(m, 7),
       p[1] * At(m, 8) + p[2] * At(m, 9) + p[3] * At(m, 10) + At(m, 11) >>

TransformCloud(points, m) == [k \in 1 .. Len(points) |-> TransformPoint(points[k], m)]

NormSquared(p) == p[1] * p[1] + p[2] * p[2] + p[3] * p[3]

\* std::sqrt(x*x + y*y + z*z) > 0.1f
PassesFilter(p) == NormSquared(p) > FilterThreshold * FilterThreshold

\* The loop of processPointCloudFast run by one thread, in index order.
RECURSIVE FilterSerial(_)
FilterSerial(points) ==
    IF points = <<>> THEN <<>>
    ELSE IF PassesFilter(Head(points))
         THEN <<Head(points)>> \o FilterSerial(Tail(points))
         ELSE FilterSerial(Tail(points))

\* ------------------------------------------------------------ session
FreshSession ==
    [ transformation_matrix_ |-> Identity,
      calibration_error_ |-> 0,
      is_calibrated_ |-> FALSE ]

\* Faulty variant: the divisor 1000.0f in place of 10000.0f.
SimulatedErrorCoarse(r) == BaseError + 10 * (r % RandMod)

SimulatedError(r) == BaseError + (r % RandMod)

WithTranslation(m, c) == Put(Put(Put(m, 3, 0 - c[1]), 7, 0 - c[2]), 11, 0 - c[3])

\* Faulty variant: the error and the status are set before the cloud is
\* looked at.
CalibrateResultMarksFirst(s, cloud, r) ==
    LET marked == [s EXCEPT !.calibration_error_ = SimulatedError(r),
                            !.is_calibrated_ = TRUE]
    IN  IF cloud = <<>>
        THEN [ session |-> marked, ret |-> FALSE ]
        ELSE [ session |->
                 [marked EXCEPT !.transformation_matrix_ =
                      WithTranslation(@, Centroid(cloud))],
               ret |-> TRUE ]

\* calibrateSensor as a function: the session after the call and the value
\* returned, for the value r that rand() yields.
CalibrateResult(s, cloud, r) ==
    IF cloud = <<>>
    THEN [ session |-> s, ret |-> FALSE ]
    ELSE [ session |->
             [ transformation_matrix_ |->
                   WithTranslation(s.transformation_matrix_, Centroid(cloud)),
               calibration_error_ |-> SimulatedError(r),
               is_calibrated_ |-> TRUE ],
           ret |-> TRUE ]

ErrorOf(s) == s.calibration_error_

StatusOf(s) ==
    IF s.is_calibrated_
    THEN << "CALIBRATED", s.calibration_error_ >>
    ELSE << "NOT_CALIBRATED" >>

\* ------------------------------------------------------------ check
RECURSIVE MaxErrorFrom(_, _, _)
MaxErrorFrom(ls, k, acc) ==
    IF k \notin DOMAIN ls THEN acc
    ELSE MaxErrorFrom(ls, k + 1,
                      IF ErrorOf(ls[k]) > acc THEN ErrorOf(ls[k]) ELSE acc)

MaxError(ls) == MaxErrorFrom(ls, 0, 0)

\* Faulty variant: || in place of &&.
VerdictEither(max, all) == IF max < Tolerance \/ all THEN "PASS" ELSE "FAIL"

Verdict(max, all) == IF max < Tolerance /\ all THEN "PASS" ELSE "FAIL"

\* The sensors the check's failure message names: the message is a fixed
\* string.
FailureList(ls) == {}

\* ------------------------------------------------------------ state
VARIABLES
    lidars,          \* sensor id -> session (the LidarCalibrator objects)
    all_calibrated,  \* main: bool all_calibrated
    lastOp,          \* the operation the last step performed, and its result
    point_clouds,    \* main: the cloud of each sensor
    pc,              \* main: where the driver is
    idx,             \* main: the loop variable i
    max_error,       \* main: float max_error
    verdict,         \* main: what the consistency check printed
    offenders,       \* main: the sensors named by the failure message
    events,          \* main: the calls made so far, in order
    wpc,             \* calibrateSensor running in its own thread: position
    wcenter,         \* calibrateSensor: center_x, center_y, center_z
    callPre,         \* the session as the call in progress found it
    obs,             \* what a reader thread read during that call
    fpc,             \* processPointCloudFast: position
    fpoints,         \* processPointCloudFast: the argument points
    storage,         \* processed: the reserved elements
    finish,          \* processed: its size (the end pointer)
    team,            \* the threads of the parallel loop
    fresult          \* processPointCloudFast: the cloud returned

sessionVars == << lidars, all_calibrated, lastOp >>
driverVars == << point_clouds, pc, idx, max_error, verdict, offenders, events >>
concVars == << wpc, wcenter, callPre, obs >>
filterVars == << fpc, fpoints, storage, finish, team, fresult >>
vars == << lidars, all_calibrated, lastOp,
           point_clouds, pc, idx, max_error, verdict, offenders, events,
           wpc, wcenter, callPre, obs,
           fpc, fpoints, storage, finish, team, fresult >>

NoOp == [ op |-> "none", sensor |-> 0, cloud |-> <<>>, ret |-> FALSE ]

DriverIdle ==
    /\ point_clouds = <<>>
    /\ pc = "off"
    /\ idx = 0
    /\ max_error = 0
    /\ verdict = "NONE"
    /\ offenders = {}
    /\ events = <<>>

NoObs == [ error |-> -1, status |-> << "NONE" >> ]

ConcIdle ==
    /\ wpc = "off"
    /\ wcenter = << 0, 0, 0 >>
    /\ callPre = FreshSession
    /\ obs = NoObs

FilterIdle ==
    /\ fpc = "off"
    /\ fpoints = <<>>
    /\ storage = <<>>
    /\ finish = 0
    /\ team = <<>>
    /\ fresult = <<>>

\* ------------------------------------------------------------ API harness
\* A single-threaded client that constructs the sessions of HarnessIds and
\* then calls the operations in any order with any arguments.
Init ==
    /\ lidars = [i \in HarnessIds |-> FreshSession]
    /\ all_calibrated = TRUE
    /\ lastOp = NoOp
    /\ DriverIdle
    /\ ConcIdle
    /\ FilterIdle

\* Faulty variant: the transformation matrix is one object shared by all
\* sessions (a static member).
calibrateSensorSharedMatrix(i, cloud, r) ==
    LET res == CalibrateResult(lidars[i], cloud, r)
    IN  /\ lidars' = [j \in DOMAIN lidars |->
                        IF j = i THEN res.session
                        ELSE [lidars[j] EXCEPT !.transformation_matrix_ =
                                  res.session.transformation_matrix_]]
        /\ all_calibrated' = (all_calibrated /\ res.ret)
        /\ lastOp' = [ op |-> "calibrateSensor", sensor |-> i,
                       cloud |-> cloud, ret |-> res.ret ]
        /\ UNCHANGED << driverVars, concVars, filterVars >>

\* if (!lidars[i].calibrateSensor(cloud)) all_calibrated = false;
calibrateSensor(i, cloud, r) ==
    LET res == CalibrateResult(lidars[i], cloud, r)
    IN  /\ lidars' = [lidars EXCEPT ![i] = res.session]
        /\ all_calibrated' = (all_calibrated /\ res.ret)
        /\ lastOp' = [ op |-> "calibrateSensor", sensor |-> i,
                       cloud |-> cloud, ret |-> res.ret ]
        /\ UNCHANGED << driverVars, concVars, filterVars >>

calculateCalibrationError(i) ==
    /\ lastOp' = [ op |-> "calculateCalibrationError", sensor |-> i,
                   cloud |-> <<>>, ret |-> ErrorOf(lidars[i]) ]
    /\ UNCHANGED << lidars, all_calibrated >>
    /\ UNCHANGED << driverVars, concVars, filterVars >>

getCalibrationStatus(i) ==
    /\ lastOp' = [ op |-> "getCalibrationStatus", sensor |-> i,
                   cloud |-> <<>>, ret |-> StatusOf(lidars[i]) ]
    /\ UNCHANGED << lidars, all_calibrated >>
    /\ UNCHANGED << driverVars, concVars, filterVars >>

transformPointCloud(i, points, m) ==
    /\ lastOp' = [ op |-> "transformPointCloud", sensor |-> i,
                   cloud |-> points, ret |-> TransformCloud(points, m) ]
    /\ UNCHANGED << lidars, all_calibrated >>
    /\ UNCHANGED << driverVars, concVars, filterVars >>

\* The loop run by a team of one thread.
processPointCloudFast(i, points) ==
    /\ lastOp' = [ op |-> "processPointCloudFast", sensor |-> i,
                   cloud |-> points, ret |-> FilterSerial(points) ]
    /\ UNCHANGED << lidars, all_calibrated >>
    /\ UNCHANGED << driverVars, concVars, filterVars >>

\* The consistency check of main over the sessions constructed.
consistencyCheck ==
    /\ lastOp' = [ op |-> "consistencyCheck", sensor |-> 0, cloud |-> <<>>,
                   ret |-> << Verdict(MaxError(lidars), all_calibrated),
                              FailureList(lidars) >> ]
    /\ UNCHANGED << lidars, all_calibrated >>
    /\ UNCHANGED << driverVars, concVars, filterVars >>

Next ==
    \/ \E i \in HarnessIds, cloud \in Clouds, r \in RandValues :
           calibrateSensor(i, cloud, r)
    \/ \E i \in HarnessIds : calculateCalibrationError(i)
    \/ \E i \in HarnessIds : getCalibrationStatus(i)
    \/ \E i \in HarnessIds, points \in Clouds :
           transformPointCloud(i, points, lidars[i].transformation_matrix_)
    \/ \E i \in HarnessIds, points \in Clouds : processPointCloudFast(i, points)
    \/ consistencyCheck

Spec == Init /\ [][Next]_vars

\* ------------------------------------------------------------ driver
\* main from "bool all_calibrated = true" on, for any clouds handed to it:
\* a sensor's cloud is empty or holds DriverCloudLen points.
DriverClouds == { c \in Clouds : Len(c) = 0 \/ Len(c) = DriverCloudLen }

DriverInit ==
    /\ lidars = [i \in LidarIds |-> FreshSession]
    /\ all_calibrated = TRUE
    /\ lastOp = NoOp
    /\ point_clouds \in [LidarIds -> DriverClouds]
    /\ pc = "calibrate"
    /\ idx = 0
    /\ max_error = 0
    /\ verdict = "NONE"
    /\ offenders = {}
    /\ events = <<>>
    /\ ConcIdle
    /\ FilterIdle

\* Faulty variant: the calibration loop stops one sensor short.
CalibrationLoopStopsShort(k) == k < NumLidars - 1

\* for (int i = 0; i < 4; ++i) of the calibration loop
CalibrationLoopContinues(k) == k < NumLidars

CalibrationLoop ==
    /\ UNCHANGED << concVars, filterVars >>
    /\ pc = "calibrate"
    /\ CalibrationLoopContinues(idx)
    /\ \E r \in RandValues :
         LET res == CalibrateResult(lidars[idx], point_clouds[idx], r)
         IN  /\ lidars' = [lidars EXCEPT ![idx] = res.session]
             /\ all_calibrated' = (all_calibrated /\ res.ret)
             /\ lastOp' = [ op |-> "calibrateSensor", sensor |-> idx,
                            cloud |-> point_clouds[idx], ret |-> res.ret ]
    /\ events' = Append(events, << "calibrateSensor", idx >>)
    /\ idx' = idx + 1
    /\ UNCHANGED << point_clouds, pc, max_error, verdict, offenders >>

CalibrationLoopExit ==
    /\ UNCHANGED << concVars, filterVars >>
    /\ pc = "calibrate"
    /\ ~ CalibrationLoopContinues(idx)
    /\ pc' = "results"
    /\ idx' = 0
    /\ UNCHANGED << lidars, all_calibrated, lastOp, point_clouds, max_error,
                    verdict, offenders, events >>

ResultsLoop ==
    /\ UNCHANGED << concVars, filterVars >>
    /\ pc = "results"
    /\ idx < NumLidars
    /\ lastOp' = [ op |-> "getCalibrationStatus", sensor |-> idx,
                   cloud |-> <<>>, ret |-> StatusOf(lidars[idx]) ]
    /\ events' = Append(events, << "getCalibrationStatus", idx >>)
    /\ idx' = idx + 1
    /\ UNCHANGED << lidars, all_calibrated, point_clouds, pc, max_error,
                    verdict, offenders >>

ResultsLoopExit ==
    /\ UNCHANGED << concVars, filterVars >>
    /\ pc = "results"
    /\ ~ (idx < NumLidars)
    /\ pc' = "check"
    /\ idx' = 0
    /\ max_error' = 0
    /\ UNCHANGED << lidars, all_calibrated, lastOp, point_clouds, verdict,
                    offenders, events >>

CheckLoop ==
    /\ UNCHANGED << concVars, filterVars >>
    /\ pc = "check"
    /\ idx < NumLidars
    /\ LET error == ErrorOf(lidars[idx])
       IN  /\ max_error' = IF error > max_error THEN error ELSE max_error
           /\ lastOp' = [ op |-> "calculateCalibrationError", sensor |-> idx,
                          cloud |-> <<>>, ret |-> error ]
    /\ events' = Append(events, << "calculateCalibrationError", idx >>)
    /\ idx' = idx + 1
    /\ UNCHANGED << lidars, all_calibrated, point_clouds, pc, verdict,
                    offenders >>

CheckVerdict ==
    /\ UNCHANGED << concVars, filterVars >>
    /\ pc = "check"
    /\ ~ (idx < NumLidars)
    /\ verdict' = Verdict(max_error, all_calibrated)
    /\ offenders' = IF verdict' = "FAIL" THEN FailureList(lidars) ELSE {}
    /\ pc' = "done"
    /\ UNCHANGED << lidars, all_calibrated, lastOp, point_clouds, idx,
                    max_error, events >>

DriverNext ==
    \/ CalibrationLoop
    \/ CalibrationLoopExit
    \/ ResultsLoop
    \/ ResultsLoopExit
    \/ CheckLoop
    \/ CheckVerdict

SpecDriver == DriverInit /\ [][DriverNext]_vars

\* ------------------------------------------------------------ concurrency
\* One session, a thread that calls calibrateSensor on it again and again,
\* and a reader thread.  The members are plain fields written one after the
\* other with no lock; every write is a step of its own.
ConcIds == { 0 }

ConcInit ==
    /\ lidars = [i \in ConcIds |-> FreshSession]
    /\ all_calibrated = TRUE
    /\ lastOp = NoOp
    /\ DriverIdle
    /\ FilterIdle
    /\ wpc = "idle"
    /\ wcenter = << 0, 0, 0 >>
    /\ callPre = FreshSession
    /\ obs = NoObs

\* The call with an empty cloud: it returns before it writes.
CallEmpty(i) ==
    /\ wpc = "idle"
    /\ callPre' = lidars[i]
    /\ obs' = NoObs
    /\ lastOp' = [ op |-> "calibrateSensor", sensor |-> i, cloud |-> <<>>,
                   ret |-> FALSE ]
    /\ UNCHANGED << lidars, all_calibrated, wpc, wcenter >>
    /\ UNCHANGED << driverVars, filterVars >>

\* The call up to the centroid: nothing of the session is written yet.
CallBegin(i, cloud) ==
    /\ wpc = "idle"
    /\ cloud # <<>>
    /\ callPre' = lidars[i]
    /\ obs' = NoObs
    /\ wcenter' = Centroid(cloud)
    /\ wpc' = "transform"
    /\ lastOp' = [ op |-> "calibrateSensor", sensor |-> i, cloud |-> cloud,
                   ret |-> FALSE ]
    /\ UNCHANGED << lidars, all_calibrated >>
    /\ UNCHANGED << driverVars, filterVars >>

\* transformation_matrix_[3], [7], [11] = ...
WriteTransform(i) ==
    /\ wpc = "transform"
    /\ lidars' = [lidars EXCEPT ![i].transformation_matrix_ =
                      WithTranslation(@, wcenter)]
    /\ wpc' = "error"
    /\ UNCHANGED << all_calibrated, lastOp, wcenter, callPre, obs >>
    /\ UNCHANGED << driverVars, filterVars >>

\* calibration_error_ = 0.01f + (rand() % 100) / 10000.0f;
WriteError(i, r) ==
    /\ wpc = "error"
    /\ lidars' = [lidars EXCEPT ![i].calibration_error_ = SimulatedError(r)]
    /\ wpc' = "status"
    /\ UNCHANGED << all_calibrated, lastOp, wcenter, callPre, obs >>
    /\ UNCHANGED << driverVars, filterVars >>

\* is_calibrated_ = true; ... return true;
WriteStatus(i) ==
    /\ wpc = "status"
    /\ lidars' = [lidars EXCEPT ![i].is_calibrated_ = TRUE]
    /\ wpc' = "idle"
    /\ lastOp' = [lastOp EXCEPT !.ret = TRUE]
    /\ UNCHANGED << all_calibrated, wcenter, callPre, obs >>
    /\ UNCHANGED << driverVars, filterVars >>

\* The reader calls calculateCalibrationError and getCalibrationStatus with
\* no step of the writer between the two.
ReaderObserve(i) ==
    /\ obs' = [ error |-> ErrorOf(lidars[i]), status |-> StatusOf(lidars[i]) ]
    /\ UNCHANGED << lidars, all_calibrated, lastOp, wpc, wcenter, callPre >>
    /\ UNCHANGED << driverVars, filterVars >>

ConcNext ==
    \/ \E i \in ConcIds : CallEmpty(i)
    \/ \E i \in ConcIds, cloud \in Clouds : CallBegin(i, cloud)
    \/ \E i \in ConcIds : WriteTransform(i)
    \/ \E i \in ConcIds, r \in RandValues : WriteError(i, r)
    \/ \E i \in ConcIds : WriteStatus(i)
    \/ \E i \in ConcIds : ReaderObserve(i)

SpecConc == ConcInit /\ [][ConcNext]_vars

\* ------------------------------------------------------------ parallel loop
\* processPointCloudFast with the loop shared by a team of NumThreads
\* threads.  The iterations are dealt out in contiguous chunks (the static
\* schedule); push_back on the shared vector is not synchronised: a thread
\* loads the end pointer, then stores the element there and the new end.
Unset == << >>

ThreadIds == 0 .. (NumThreads - 1)

ChunkLo(t, n) ==
    LET q == n \div NumThreads
        r == n % NumThreads
    IN  IF t < r THEN t * (q + 1) ELSE t * q + r

ChunkHi(t, n) ==
    LET q == n \div NumThreads
        r == n % NumThreads
    IN  IF t < r THEN ChunkLo(t, n) + q + 1 ELSE ChunkLo(t, n) + q

FilterInit ==
    /\ lidars = [i \in ConcIds |-> FreshSession]
    /\ all_calibrated = TRUE
    /\ lastOp = NoOp
    /\ DriverIdle
    /\ ConcIdle
    /\ fpc = "call"
    /\ fpoints \in Clouds
    /\ storage = <<>>
    /\ finish = 0
    /\ team = <<>>
    /\ fresult = <<>>

\* processed.reserve(points.size()); #pragma omp parallel for
FilterFork ==
    /\ fpc = "call"
    /\ storage' = [k \in 0 .. (Len(fpoints) - 1) |-> Unset]
    /\ finish' = 0
    /\ team' = [t \in ThreadIds |->
                  [ pc |-> "test", i |-> ChunkLo(t, Len(fpoints)),
                    hi |-> ChunkHi(t, Len(fpoints)), slot |-> 0 ]]
    /\ fpc' = "parallel"
    /\ UNCHANGED << fpoints, fresult >>
    /\ UNCHANGED << sessionVars, driverVars, concVars >>

\* points[i] of the code (0-based)
PointAt(points, k) == points[k + 1]

\* The condition of the if; a point that passes starts its push_back:
\* the thread loads the end pointer.
WorkerTest(t) ==
    /\ fpc = "parallel"
    /\ team[t].pc = "test"
    /\ team[t].i < team[t].hi
    /\ IF PassesFilter(PointAt(fpoints, team[t].i))
       THEN team' = [team EXCEPT ![t].pc = "push", ![t].slot = finish]
       ELSE team' = [team EXCEPT ![t].i = @ + 1]
    /\ UNCHANGED << fpc, fpoints, storage, finish, fresult >>
    /\ UNCHANGED << sessionVars, driverVars, concVars >>

\* The rest of push_back: the element and the new end pointer are stored.
WorkerPush(t) ==
    /\ fpc = "parallel"
    /\ team[t].pc = "push"
    /\ storage' = [storage EXCEPT ![team[t].slot] = PointAt(fpoints, team[t].i)]
    /\ finish' = team[t].slot + 1
    /\ team' = [team EXCEPT ![t].pc = "test", ![t].i = @ + 1]
    /\ UNCHANGED << fpc, fpoints, fresult >>
    /\ UNCHANGED << sessionVars, driverVars, concVars >>

\* The end of the parallel region; return processed;
FilterJoin ==
    /\ fpc = "parallel"
    /\ \A t \in ThreadIds : team[t].pc = "test" /\ team[t].i >= team[t].hi
    /\ fresult' = [k \in 1 .. finish |-> storage[k - 1]]
    /\ fpc' = "done"
    /\ UNCHANGED << fpoints, storage, finish, team >>
    /\ UNCHANGED << sessionVars, driverVars, concVars >>

FilterNext ==
    \/ FilterFork
    \/ \E t \in ThreadIds : WorkerTest(t)
    \/ \E t \in ThreadIds : WorkerPush(t)
    \/ FilterJoin

SpecFilter == FilterInit /\ [][FilterNext]_vars

\* ------------------------------------------------------------ claims
Called(i) == \E k \in DOMAIN events : events[k] = << "calibrateSensor", i >>

IsRead(e) == e[1] \in { "getCalibrationStatus", "calculateCalibrationError" }

Cross(u, v) ==
    << u[2] * v[3] - u[3] * v[2],
       u[3] * v[1] - u[1] * v[3],
       u[1] * v[2] - u[2] * v[1] >>

Minus(u, v) == << u[1] - v[1], u[2] - v[2], u[3] - v[3] >>

Colinear(a, b, c) == Cross(Minus(b, a), Minus(c, a)) = << 0, 0, 0 >>

\* fewer than 3 non-colinear points
Degenerate(cloud) ==
    ~ \E a, b, c \in Range(cloud) : ~ Colinear(a, b, c)

ViewOf(s) == [ error |-> ErrorOf(s), status |-> StatusOf(s) ]

\* the points whose norm exceeds the threshold, in input order
Survivors(points) == SelectSeq(points, LAMBDA p : NormSquared(p) > FilterThreshold * FilterThreshold)

EmptySensors == { i \in LidarIds : point_clouds[i] = <<>> }

\* C1: a calibrateSensor call with an empty cloud returns failure and leaves
\* every field of the session (status, error, transform) as it was, whatever
\* state the session was in.
C1_EmptyCloudLeavesSession ==
    [][ (lastOp'.op = "calibrateSensor" /\ lastOp'.cloud = <<>>)
        => (lastOp'.ret = FALSE /\ lidars' = lidars) ]_vars

\* C1 witness: an empty-cloud call was just made on a session that an
\* earlier call had calibrated (it is still CALIBRATED), next to a session
\* that is still as constructed.
C1_Witness ==
    /\ lastOp.op = "calibrateSensor"
    /\ lastOp.cloud = <<>>
    /\ lastOp.ret = FALSE
    /\ lidars[lastOp.sensor].is_calibrated_
    /\ \E j \in DOMAIN lidars : lidars[j] = FreshSession

\* C2: a reader that runs while calibrateSensor is in progress sees the
\* session as it was before the call or as it is after it, never a mix.
C2_ReaderSeesWholeUpdate ==
    \A i \in DOMAIN lidars :
        (obs # NoObs /\ wpc = "idle")
        => obs \in { ViewOf(callPre), ViewOf(lidars[i]) }

\* C3: two sessions in the same state that are calibrated with the same
\* cloud end in the same state.
C3_Deterministic ==
    \A i, j \in LidarIds :
        (Called(i) /\ Called(j) /\ point_clouds[i] = point_clouds[j])
        => lidars[i] = lidars[j]

\* C4: the check reports PASS only if every session is CALIBRATED and every
\* error is within the tolerance; a session that is NOT_CALIBRATED or an
\* error beyond the tolerance makes it report FAIL.
C4_PassOnlyIfAllCalibratedWithinTolerance ==
    pc = "done" =>
        /\ verdict \in { "PASS", "FAIL" }
        /\ verdict = "PASS" =>
              \A i \in LidarIds :
                  /\ lidars[i].is_calibrated_
                  /\ lidars[i].calibration_error_ <= Tolerance
        /\ (\E i \in LidarIds :
                \/ ~ lidars[i].is_calibrated_
                \/ lidars[i].calibration_error_ > Tolerance)
           => verdict = "FAIL"

\* C4 witness: the check has reported PASS.
C4_Witness ==
    /\ pc = "done"
    /\ verdict = "PASS"
    /\ \A i \in LidarIds : lidars[i].is_calibrated_

\* C5: when all four clouds are non-empty, all four sessions end CALIBRATED
\* with an error below 0.02 and the check reports PASS, whatever rand()
\* returned.
C5_ValidCloudsPass ==
    (pc = "done" /\ EmptySensors = {}) =>
        /\ \A i \in LidarIds :
              /\ StatusOf(lidars[i])[1] = "CALIBRATED"
              /\ lidars[i].calibration_error_ < Tolerance
        /\ verdict = "PASS"
        /\ \A r \in 0 .. (RandMod - 1) : SimulatedError(r) < Tolerance

\* C5 witness: a run with four non-empty clouds has ended, one session with
\* the largest error rand() can give and one with the smallest.
C5_Witness ==
    /\ pc = "done"
    /\ EmptySensors = {}
    /\ \E i \in LidarIds : lidars[i].calibration_error_ = BaseError + RandMod - 1
    /\ \E i \in LidarIds : lidars[i].calibration_error_ = BaseError

\* C6: with exactly one empty cloud the check reports FAIL and its failure
\* report names exactly the sensor that got the empty cloud.
C6_FailListsTheEmptySensor ==
    (pc = "done" /\ Cardinality(EmptySensors) = 1) =>
        /\ verdict = "FAIL"
        /\ offenders = EmptySensors

\* C7: processPointCloudFast returns the points whose norm exceeds the
\* threshold, in input order, none lost and none twice, for every
\* interleaving of the threads of the loop.
C7_FilterKeepsSurvivorsInOrder ==
    fpc = "done" => fresult = Survivors(fpoints)

\* C8: calibrateSensor on a cloud with fewer than 3 non-colinear points never
\* returns success with the session CALIBRATED.
C8_DegenerateCloudRejected ==
    (lastOp.op = "calibrateSensor" /\ Degenerate(lastOp.cloud))
    => ~ (lastOp.ret = TRUE /\ lidars[lastOp.sensor].is_calibrated_)

\* C9: every read of a session's status or error by the driver comes after
\* the calibrateSensor calls of all four sensors.
C9_ReadsAfterAllCalibrations ==
    \A k \in DOMAIN events :
        IsRead(events[k]) =>
            \A i \in LidarIds :
                \E q \in 1 .. (k - 1) : events[q] = << "calibrateSensor", i >>

\* C9 witness: the check has read the error of every sensor.
C9_Witness ==
    /\ pc = "done"
    /\ \A i \in LidarIds :
           \E k \in DOMAIN events : events[k] = << "calculateCalibrationError", i >>

\* C10: a session changes only in a step that is its own calibrateSensor
\* call; the calls on other sessions, the const operations and the
\* consistency check leave it as it is.
C10_OnlyOwnCalibrateChangesSession ==
    [][ \A j \in DOMAIN lidars :
            lidars'[j] # lidars[j]
            => (lastOp'.op = "calibrateSensor" /\ lastOp'.sensor = j) ]_vars

\* C10 witness: a successful calibrateSensor call was just made on one
\* session while another one is still as constructed.
C10_Witness ==
    /\ lastOp.op = "calibrateSensor"
    /\ lastOp.ret = TRUE
    /\ lidars[lastOp.sensor].is_calibrated_
    /\ \E j \in DOMAIN lidars : j # lastOp.sensor /\ lidars[j] = FreshSession

=============================================================================
